---- MODULE Spec2Model ----
(***************************************************************************)
(* A model of main.go of Anton-Cao/raytracer: the vector algebra, the      *)
(* ray/ball intersection, ball.reflect, the recursive scene.getColor and   *)
(* the tile-parallel scene.render.                                         *)
(*                                                                         *)
(* Arithmetic.  The program computes in float64.  The model computes in    *)
(* fixed point: a real number v is the integer v * Unit, products and      *)
(* quotients are rounded down to a multiple of 1/Unit and math.Sqrt is the *)
(* integer square root.  Every formula below is the source's formula in    *)
(* that arithmetic.  Colour arithmetic (getColor's weighted average) is    *)
(* exact rational arithmetic.                                              *)
(*                                                                         *)
(* Layout.  A local of the source that is read more than once is the       *)
(* parameter of a helper operator (intersect computes aa, bb, cc and hands *)
(* them to solveQuadratic, and so on), so that each expression is written, *)
(* and evaluated, once.                                                    *)
(***************************************************************************)
EXTENDS Integers, Sequences, FiniteSets, TLC

(***************************************************************************)
(* Fixed-point arithmetic                                                  *)
(***************************************************************************)
Unit == 10 * 10 * 10

\* main.go:16  tolerance = 0.001
tolerance == Unit \div 1000

\* a * b for fixed-point a, b; split so that no intermediate leaves 32 bits
Mul(a, b) == a * (b \div Unit) + (a * (b % Unit)) \div Unit

\* a / b for fixed-point a, b
Div(a, b) == (a * Unit) \div b

RECURSIVE ISqrtBetween(_, _, _)
\* the largest r in lo..hi with r * r <= n (lo * lo <= n is given)
ISqrtBetween(n, lo, hi) ==
    IF lo >= hi THEN lo
    ELSE IF ((lo + hi + 1) \div 2) * ((lo + hi + 1) \div 2) <= n
         THEN ISqrtBetween(n, (lo + hi + 1) \div 2, hi)
         ELSE ISqrtBetween(n, lo, (lo + hi + 1) \div 2 - 1)

\* math.Sqrt on a fixed-point argument a >= 0
Sqrt(a) == ISqrtBetween(a * Unit, 0, 46340)

(***************************************************************************)
(* main.go:19-94  points, directions, rays                                 *)
(***************************************************************************)
Point(x, y, z) == [x |-> x, y |-> y, z |-> z]

Direction(dx, dy, dz) == [dx |-> dx, dy |-> dy, dz |-> dz]

Ray(src, dir) == [src |-> src, dir |-> dir]

\* func (d direction) scale(factor float64) direction
dirScale(d, factor) ==
    Direction(Mul(factor, d.dx), Mul(factor, d.dy), Mul(factor, d.dz))

\* func (d direction) flip() direction
dirFlip(d) == dirScale(d, -Unit)

\* func (d direction) add(d2 direction) direction
dirAdd(d, d2) == Direction(d.dx + d2.dx, d.dy + d2.dy, d.dz + d2.dz)

\* func (p point) to(other point) direction
to(p, other) == Direction(other.x - p.x, other.y - p.y, other.z - p.z)

norm2(d) == Mul(d.dx, d.dx) + Mul(d.dy, d.dy) + Mul(d.dz, d.dz)

norm(d) == Sqrt(norm2(d))

\* main.go:53-55  d.dx /= n; d.dy /= n; d.dz /= n
divideBy(d, n) == Direction(Div(d.dx, n), Div(d.dy, n), Div(d.dz, n))

\* func (d *direction) normalize(): the value d holds afterwards
normalize(d) == divideBy(d, norm(d))

dot(d1, d2) == Mul(d1.dx, d2.dx) + Mul(d1.dy, d2.dy) + Mul(d1.dz, d2.dz)

\* a - k*b, componentwise (main.go:66 diff, main.go:184-188 n2dir)
minusScaled(a, k, b) ==
    Direction(a.dx - Mul(k, b.dx), a.dy - Mul(k, b.dy), a.dz - Mul(k, b.dz))

\* main.go:67  rot := v - 2*diff
rotated(v, diff) ==
    Direction(v.dx - 2 * diff.dx, v.dy - 2 * diff.dy, v.dz - 2 * diff.dz)

\* main.go:65-68  rotateAround once normal is normalized
rotateAroundUnit(v, normal) ==
    rotated(v, minusScaled(v, Mul(normal.dx, v.dx) + Mul(normal.dy, v.dy)
                                + Mul(normal.dz, v.dz), normal))

\* rotate v 180 degrees around normal
rotateAround(v, normal) == rotateAroundUnit(v, normalize(normal))

\* func (r *ray) scale(factor float64) point
rayScale(r, factor) ==
    Point(r.src.x + Mul(factor, r.dir.dx),
          r.src.y + Mul(factor, r.dir.dy),
          r.src.z + Mul(factor, r.dir.dz))

getRay(src, dst) == Ray(src, to(src, dst))

\* func (r ray) flip() ray
rayFlip(r) == getRay(r.src, rayScale(r, -Unit))

(***************************************************************************)
(* main.go:96-134  materials, balls, intersect                             *)
(***************************************************************************)
RGBA(r, g, b, a) == [R |-> r, G |-> g, B |-> b, A |-> a]

Material(luminous, color, roughness) ==
    [luminous |-> luminous, color |-> color, roughness |-> roughness]

Ball(center, radius, mat) == [center |-> center, radius |-> radius, mat |-> mat]

NoHit == [intersects |-> FALSE, point |-> Point(0, 0, 0)]

\* main.go:130-133  if factor < tolerance {...}; return r.scale(factor), true
hitAtFactor(r, factor) ==
    IF factor < tolerance THEN NoHit
    ELSE [intersects |-> TRUE, point |-> rayScale(r, factor)]

\* main.go:126-129  if radical < 0 {...}; factor := (-bb - sqrt(radical)) / (2*aa)
hitAtRadical(r, aa, bb, radical) ==
    IF radical < 0 THEN NoHit
    ELSE hitAtFactor(r, Div(-bb - Sqrt(radical), 2 * aa))

\* main.go:125  radical := bb*bb - 4.0*aa*cc
solveQuadratic(r, aa, bb, cc) ==
    hitAtRadical(r, aa, bb, Mul(bb, bb) - 4 * Mul(aa, cc))

\* main.go:119-124  aa, bb, cc from (xx, yy, zz) = off and the ray's direction
quadratic(r, off, radius) ==
    solveQuadratic(r,
        Mul(r.dir.dx, r.dir.dx) + Mul(r.dir.dy, r.dir.dy) + Mul(r.dir.dz, r.dir.dz),
        2 * (Mul(off.dx, r.dir.dx) + Mul(off.dy, r.dir.dy) + Mul(off.dz, r.dir.dz)),
        Mul(off.dx, off.dx) + Mul(off.dy, off.dy) + Mul(off.dz, off.dz)
            - Mul(radius, radius))

\* func (b *ball) intersect(r ray) (point, bool)
intersect(b, r) ==
    quadratic(r, Direction(r.src.x - b.center.x, r.src.y - b.center.y,
                           r.src.z - b.center.z), b.radius)

(***************************************************************************)
(* main.go:136-235  ball.reflect                                           *)
(*                                                                         *)
(* The source sweeps radius = 0.01, 0.06, ... while radius <= 5*roughness  *)
(* and, per radius, angle = 0, 5, ..., 355.  The model sweeps every        *)
(* RingStride-th of those radii (0.01, 2.51, ...) and the four angles of   *)
(* Angles, a subset of the source's samples whose cosine and sine are      *)
(* exact.                                                                  *)
(***************************************************************************)
RingStride == 50

Angles == <<0, 90, 180, 270>>

\* math.Cos(float64(angle) * (math.Pi / 180))
Cos(angle) == CASE angle = 0   -> Unit
                [] angle = 90  -> 0
                [] angle = 180 -> -Unit
                [] angle = 270 -> 0

\* math.Sin(float64(angle) * (math.Pi / 180))
Sin(angle) == CASE angle = 0   -> 0
                [] angle = 90  -> Unit
                [] angle = 180 -> 0
                [] angle = 270 -> -Unit

\* weights are kept as multiples of 1/WeightDen: 1.0 is WeightDen, 1.0/72 is 1
WeightDen == 72

\* main.go:147-149  if b.mat.roughness > 1 { b.mat.roughness = 1 }
clampRoughness(roughness) == IF roughness > Unit THEN Unit ELSE roughness

\* main.go:153-180  n1dir before it is normalized
n1dirRaw(o) ==
    IF o.dx # 0 THEN Direction(Div(-(o.dy + o.dz), o.dx), Unit, Unit)
    ELSE IF o.dy # 0 THEN Direction(Unit, Div(-(o.dx + o.dz), o.dy), Unit)
    ELSE Direction(Unit, Unit, Div(-(o.dx + o.dy), o.dz))

\* main.go:153-180  n2dirTemp
n2dirTemp(o) ==
    IF o.dx # 0 THEN Direction(Div(-(o.dy + 2 * o.dz), o.dx), Unit, 2 * Unit)
    ELSE IF o.dy # 0 THEN Direction(2 * Unit, Div(-(2 * o.dx + o.dz), o.dy), Unit)
    ELSE Direction(Unit, 2 * Unit, Div(-(o.dx + 2 * o.dy), o.dz))

\* main.go:182-189  make n2dirTemp orthogonal to n1dir, normalize
orthogonalize(n1dir, n2temp) ==
    [n1dir |-> n1dir,
     n2dir |-> normalize(minusScaled(n2temp, dot(n1dir, n2temp), n1dir))]

\* main.go:151-189  two unit vectors orthogonal to outgoingDir
orthoBasis(outgoingDir) ==
    orthogonalize(normalize(n1dirRaw(outgoingDir)), n2dirTemp(outgoingDir))

\* main.go:195-205  shiftDir, newDir and the ray appended; len is
\* radius * norm(outgoingDir)
fanRay(intersection, outgoingDir, basis, len, n1s, n2s) ==
    Ray(intersection,
        Direction(
            outgoingDir.dx + Mul(len, Mul(n1s, basis.n1dir.dx) + Mul(n2s, basis.n2dir.dx)),
            outgoingDir.dy + Mul(len, Mul(n1s, basis.n1dir.dy) + Mul(n2s, basis.n2dir.dy)),
            outgoingDir.dz + Mul(len, Mul(n1s, basis.n1dir.dz) + Mul(n2s, basis.n2dir.dz))))

\* main.go:191-207  the rays of one radius, one per angle
fanRing(intersection, outgoingDir, basis, radius) ==
    [j \in 1..Len(Angles) |->
        fanRay(intersection, outgoingDir, basis, Mul(radius, norm(outgoingDir)),
               Cos(Angles[j]), Sin(Angles[j]))]

RECURSIVE fanRays(_, _, _, _, _)
\* main.go:190  for radius := 0.01; radius <= 5*b.mat.roughness; radius += 0.05
fanRays(intersection, outgoingDir, basis, roughness, radius) ==
    IF radius <= 5 * roughness
    THEN fanRing(intersection, outgoingDir, basis, radius)
         \o fanRays(intersection, outgoingDir, basis, roughness,
                    radius + RingStride * (Unit \div 20))
    ELSE <<>>

\* a variant of scatter: the sweep reads the roughness as it was before the clamp
scatterUnclamped(b, intersection, outgoingDir) ==
    IF b.mat.roughness > 0
    THEN fanRays(intersection, outgoingDir, orthoBasis(outgoingDir),
                 b.mat.roughness, Unit \div 100)
    ELSE <<>>

\* main.go:145-208  the rays the roughness branch appends; the sweep reads
\* b.mat.roughness after the clamp
scatter(b, intersection, outgoingDir) ==
    IF b.mat.roughness > 0
    THEN fanRays(intersection, outgoingDir, orthoBasis(outgoingDir),
                 clampRoughness(b.mat.roughness), Unit \div 100)
    ELSE <<>>

\* main.go:145-149  *b after reflect: the roughness branch clamps b.mat.roughness
ballAfter(b) ==
    IF b.mat.roughness > 0
    THEN [b EXCEPT !.mat.roughness = clampRoughness(b.mat.roughness)]
    ELSE b

\* main.go:142-144,234  what reflect returns; fan is what the roughness branch
\* appended
reflected(b, intersection, outgoingDir, fan) ==
    [outgoing |-> <<Ray(intersection, outgoingDir)>> \o fan,
     weights  |-> <<WeightDen>> \o [j \in 1..Len(fan) |-> 1],
     color    |-> b.mat.color,
     ball     |-> ballAfter(b)]

\* main.go:140-141  normal, outgoingDir; then the rest of the branch
reflectAlong(b, intersection, outgoingDir) ==
    reflected(b, intersection, outgoingDir, scatter(b, intersection, outgoingDir))

\* a variant of reflect: the test of b.mat.luminous is missing
reflectAlways(b, r, intersection) ==
    reflectAlong(b, intersection,
        rotateAround(rayFlip(r).dir, rayFlip(getRay(intersection, b.center)).dir))

\* func (b *ball) reflect(r ray, intersection point); "ball" is *b afterwards
reflect(b, r, intersection) ==
    IF b.mat.luminous
    THEN [outgoing |-> <<>>, weights |-> <<>>, color |-> b.mat.color, ball |-> b]
    ELSE reflectAlong(b, intersection,
             rotateAround(rayFlip(r).dir,
                          rayFlip(getRay(intersection, b.center)).dir))

(***************************************************************************)
(* main.go:237-288  scene.getColor                                         *)
(***************************************************************************)
Scene(objects, background) == [objects |-> objects, background |-> background]

\* a variant of NoBest: minI starts at 0
NoBestFirst == [minDist |-> -Unit, minI |-> 0, ipnt |-> Point(0, 0, 0)]

\* main.go:243-245  minDist := -1.0; minI := -1; var ipnt point
NoBest == [minDist |-> -Unit, minI |-> -1, ipnt |-> Point(0, 0, 0)]

\* a variant of closer: an equally near object replaces the one found
closerOrEqual(best, i, ipnt, dist) ==
    IF best.minDist < 0 \/ dist <= best.minDist
    THEN [minDist |-> dist, minI |-> i, ipnt |-> ipnt]
    ELSE best

\* main.go:249-253  if minDist < 0 || dist < minDist {...}
closer(best, i, ipnt, dist) ==
    IF best.minDist < 0 \/ dist < best.minDist
    THEN [minDist |-> dist, minI |-> i, ipnt |-> ipnt]
    ELSE best

\* main.go:247-248  if intersection, intersects := o.intersect(r); intersects
scanStep(best, i, r, h) ==
    IF h.intersects THEN closer(best, i, h.point, norm(to(r.src, h.point)))
    ELSE best

RECURSIVE scanFrom(_, _, _, _)
\* main.go:246-255  the loop over s.objects from index i on; best is
\* (minDist, minI, ipnt).  Indices are the source's, from 0.
scanFrom(objs, r, i, best) ==
    IF i >= Len(objs) THEN best
    ELSE scanFrom(objs, r, i + 1, scanStep(best, i, r, intersect(objs[i + 1], r)))

\* main.go:243-255
nearestHit(objs, r) == scanFrom(objs, r, 0, NoBest)

(***************************************************************************)
(* Colour arithmetic of main.go:262-285, exactly.  RGBA() of a color.RGBA  *)
(* is 257 times the 8-bit channel, so float64(nr)/float64(na) is nR/nA.    *)
(* All colours of the model are opaque (A = 255).  The accumulator finalR  *)
(* of the source is the model's finalR times 257 / (255 * WeightDen), and  *)
(* totalWeight is the model's totalWeight / WeightDen.                     *)
(***************************************************************************)
ZeroAcc == [totalWeight |-> 0, finalR |-> 0, finalG |-> 0, finalB |-> 0]

\* a variant of accumulate: the weight is left out of the colour terms
accumulateUnweighted(acc, cc, weight, nc) ==
    [totalWeight |-> acc.totalWeight + weight,
     finalR |-> acc.finalR + nc.R * cc.R,
     finalG |-> acc.finalG + nc.G * cc.G,
     finalB |-> acc.finalB + nc.B * cc.B]

\* main.go:269-275  one iteration of the loop, after nc is known
accumulate(acc, cc, weight, nc) ==
    [totalWeight |-> acc.totalWeight + weight,
     finalR |-> acc.finalR + nc.R * cc.R * weight,
     finalG |-> acc.finalG + nc.G * cc.G * weight,
     finalB |-> acc.finalB + nc.B * cc.B * weight]

\* main.go:277-285  final /= totalWeight; uint8(final / float64(a) * 255)
finish(acc, cc) ==
    RGBA(acc.finalR \div (acc.totalWeight * cc.A),
         acc.finalG \div (acc.totalWeight * cc.A),
         acc.finalB \div (acc.totalWeight * cc.A),
         255)

\* s.objects after reflect has run on object minI
withBall(objs, minI, ball) == [objs EXCEPT ![minI + 1] = ball]

RECURSIVE getColor(_, _, _)
RECURSIVE shadeLoop(_, _, _, _, _, _, _)
\* main.go:271-275  nc is in: accumulate and go on with the loop
shadeNext(bg, outgoing, weights, cc, i, acc, sub) ==
    shadeLoop(sub.objects, bg, outgoing, weights, cc, i + 1,
              accumulate(acc, cc, weights[i + 1], sub.color))

\* main.go:267-285  the loop from index i on; objs carries the writes
\* reflect has made so far
shadeLoop(objs, bg, outgoing, weights, cc, i, acc) ==
    IF i >= Len(outgoing)
    THEN [color |-> finish(acc, cc), objects |-> objs]
    ELSE shadeNext(bg, outgoing, weights, cc, i, acc,
                   getColor(objs, bg, outgoing[i + 1]))

\* main.go:258-285  after reflect has returned refl
shadeReflected(objs, bg, minI, refl) ==
    IF Len(refl.outgoing) = 0
    THEN [color |-> refl.color, objects |-> withBall(objs, minI, refl.ball)]
    ELSE shadeLoop(withBall(objs, minI, refl.ball), bg, refl.outgoing,
                   refl.weights, refl.color, 0, ZeroAcc)

\* main.go:256-287  after the scan has returned best
shadeHit(objs, bg, r, best) ==
    IF best.minI # -1
    THEN shadeReflected(objs, bg, best.minI,
                        reflect(objs[best.minI + 1], r, best.ipnt))
    ELSE [color |-> bg, objects |-> objs]

\* func (s *scene) getColor(r ray) color.Color, with s.objects afterwards
getColor(objs, bg, r) == shadeHit(objs, bg, r, nearestHit(objs, r))

(***************************************************************************)
(* Scenes.  main.go:331-349 builds one scene: a rough green ball, a        *)
(* luminous white ball and a dark gray background.  The model's scenes are *)
(* of that shape, with coordinates small enough for the arithmetic above.  *)
(***************************************************************************)
P(x, y, z) == Point(x * Unit, y * Unit, z * Unit)

Green == RGBA(0, 255, 0, 255)
White == RGBA(255, 255, 255, 255)
Red   == RGBA(255, 0, 0, 255)
Gray  == RGBA(32, 32, 32, 255)

\* main's scene, scaled: roughness 1, nothing to clamp
SceneMain ==
    Scene(<<Ball(P(0, 0, 5), Unit, Material(FALSE, Green, Unit)),
            Ball(Point(-5 * (Unit \div 2), 0, 5 * Unit), Unit,
                 Material(TRUE, White, 0))>>,
          Gray)

\* the same scene with a roughness above 1
SceneRough2 ==
    Scene(<<Ball(P(0, 0, 5), Unit, Material(FALSE, Green, 2 * Unit)),
            Ball(Point(-5 * (Unit \div 2), 0, 5 * Unit), Unit,
                 Material(TRUE, White, 0))>>,
          Gray)

RenderScenes == {SceneMain, SceneRough2}

\* two mirrors facing each other across the camera
SceneMirrors ==
    Scene(<<Ball(P(0, 0, 5), Unit, Material(FALSE, White, 0)),
            Ball(P(0, 0, -5), Unit, Material(FALSE, Red, 0))>>,
          Gray)

\* a rough ball whose ideal reflected ray just misses a lamp that part of
\* its fan hits
SceneEdge ==
    Scene(<<Ball(P(0, 0, 5), Unit, Material(FALSE, Green, Unit)),
            Ball(Point(2 * Unit + 3 * (Unit \div 100), 0, -5 * Unit), 2 * Unit,
                 Material(TRUE, White, 0))>>,
          Gray)

\* the nearest ball is not the first, and two balls are equally near
SceneOrder ==
    Scene(<<Ball(P(0, 0, 8), Unit, Material(FALSE, Red, 0)),
            Ball(P(0, 0, 4), Unit, Material(TRUE, White, 0)),
            Ball(P(0, 0, 4), Unit, Material(TRUE, Green, 0))>>,
          Gray)

\* two non-luminous balls at the same place, in front of a lamp
SceneTie ==
    Scene(<<Ball(P(0, 0, 5), Unit, Material(FALSE, Red, 0)),
            Ball(P(0, 0, 5), Unit, Material(FALSE, Green, Unit)),
            Ball(P(0, 0, 9), Unit, Material(TRUE, White, 0))>>,
          Gray)

ShadeScenes ==
    {SceneMain, SceneRough2, SceneMirrors, SceneEdge, SceneOrder, SceneTie}

\* <<width, height, granularity>> whose camera rays getColor is stepped on
ShadeDims == <<8, 4, 2>>

\* <<width, height, granularity>>; the source has <<2000, 1000, 200>>
RenderDims == {<<2, 2, 1>>, <<4, 2, 2>>, <<3, 2, 2>>}

(***************************************************************************)
(* State                                                                   *)
(***************************************************************************)
VARIABLES
    objects,      \* s.objects: the balls, with their materials
    background,   \* s.background
    scene0,       \* the scene as main built it (history)
    dims,         \* [width, height, granularity] of render
    mainPc,       \* render's position: "loop", "wait", "encode", "done"
    row, col,     \* render's loop variables
    wg,           \* imgGroup's counter
    imgLock,      \* the tile holding imgLock, 0 when free
    tiles,        \* the tile goroutines started, in order
    img,          \* the pixel buffer: pixel -> colour, NoColor when unset
    setCalls,     \* per coordinate, the tiles that called img.Set on it (history)
    encoded,      \* the buffer png.Encode was given, NoImage before
    pending,      \* the ray getColor is being called with, NoRay when none
    stack,        \* getColor's activations that are inside their loop
    retval,       \* the colour the call that just returned gave, else NoColor
    last,         \* what the latest step of getColor did (history)
    nCalls,       \* calls of getColor so far (history)
    nReflect      \* calls of reflect so far (history)

renderVars == <<dims, mainPc, row, col, wg, imgLock, tiles, img, setCalls, encoded>>

sceneVars == <<objects, background, scene0>>

shadeVars == <<pending, stack, retval, last, nCalls, nReflect>>

vars == <<objects, background, scene0, dims, mainPc, row, col, wg, imgLock,
          tiles, img, setCalls, encoded, pending, stack, retval, last,
          nCalls, nReflect>>

NoColor == [none |-> TRUE]
NoImage == [none |-> TRUE]
NoRay   == [none |-> TRUE]

(***************************************************************************)
(* main.go:290-326  scene.render                                           *)
(***************************************************************************)
origin == Point(0, 0, 0)
xMin == -(Unit \div 2)
xMax == Unit \div 2
yMin == -(Unit \div 4)
yMax == Unit \div 4
zPlane == Unit

\* pixels of the buffer: image.Rectangle{{0, 0}, {width, height}}
Grid == (0..(dims.width - 1)) \X (0..(dims.height - 1))

\* every coordinate a tile loop can reach
Coords == (0..(dims.width + dims.granularity)) \X (0..(dims.height + dims.granularity))

\* main.go:310-312  the camera ray through pixel (c, r)
pixelRay(c, r) ==
    LET x == xMin + (c * (xMax - xMin)) \div dims.width
        y == yMin + (r * (yMax - yMin)) \div dims.height
    IN  getRay(origin, Point(x, y, zPlane))

\* main.go:308  r := initr; r < initr+granularity
tileRows(initr) == initr..(initr + dims.granularity - 1)

\* a variant of tileCols: c <= initc+granularity
tileColsInclusive(initc) == initc..(initc + dims.granularity)

\* main.go:309  c := initc; c < initc+granularity
tileCols(initc) == initc..(initc + dims.granularity - 1)

\* main.go:320  }(row, col): the arguments the goroutine is started with
tileArgs(rw, cl) == [initr |-> rw, initc |-> cl]

\* main.go:307-309  the goroutine's locals as it starts
startTile(a) ==
    [initr |-> a.initr, initc |-> a.initc, r |-> a.initr, c |-> a.initc,
     pc |-> "shade", color |-> NoColor]

\* main.go:315  img.Set(c, r, color): image.RGBA.Set ignores a point outside
\* the rectangle
imgSet(im, c, r, color) ==
    IF <<c, r>> \in Grid THEN [im EXCEPT ![<<c, r>>] = color] ELSE im

\* main.go:308-309  c++, then r++ with c := initc, then the loops end
nextPixel(tl) ==
    IF tl.c + 1 \in tileCols(tl.initc)
    THEN [tl EXCEPT !.c = tl.c + 1, !.pc = "shade"]
    ELSE IF tl.r + 1 \in tileRows(tl.initr)
    THEN [tl EXCEPT !.r = tl.r + 1, !.c = tl.initc, !.pc = "shade"]
    ELSE [tl EXCEPT !.pc = "done"]

\* a variant of waitReturns: Wait returns with one tile still counted
waitReturnsEarly(counter) == counter <= 1

\* main.go:323  imgGroup.Wait() returns
waitReturns(counter) == counter = 0

InitRender ==
    /\ \E d \in RenderDims :
          dims = [width |-> d[1], height |-> d[2], granularity |-> d[3]]
    /\ mainPc = "loop"
    /\ row = 0
    /\ col = 0
    /\ wg = 0
    /\ imgLock = 0
    /\ tiles = <<>>
    /\ img = [p \in Grid |-> NoColor]
    /\ setCalls = [p \in Coords |-> <<>>]
    /\ encoded = NoImage

InitScene(scenes) ==
    \E s \in scenes :
        /\ scene0 = s
        /\ objects = s.objects
        /\ background = s.background

\* main.go:304-306,320  one iteration of the loops: Add(1), go func(row, col)
Spawn ==
    /\ mainPc = "loop"
    /\ wg' = wg + 1
    /\ tiles' = Append(tiles, startTile(tileArgs(row, col)))
    /\ IF col + dims.granularity < dims.width
       THEN /\ col' = col + dims.granularity
            /\ UNCHANGED <<row, mainPc>>
       ELSE /\ col' = 0
            /\ row' = row + dims.granularity
            /\ mainPc' = IF row + dims.granularity < dims.height
                         THEN "loop" ELSE "wait"
    /\ UNCHANGED <<dims, imgLock, img, setCalls, encoded>>
    /\ UNCHANGED sceneVars
    /\ UNCHANGED shadeVars

\* main.go:310-313  color := s.getColor(ray).  The call is one step: the only
\* shared location it writes is a ball's roughness (main.go:148), without
\* synchronisation, and whichever tile writes first, every read that follows
\* a tile's own test at main.go:147 gives the clamped value.
TileShade(t) ==
    /\ tiles[t].pc = "shade"
    /\ \E res \in {getColor(objects, background, pixelRay(tiles[t].c, tiles[t].r))} :
           /\ tiles' = [tiles EXCEPT ![t].color = res.color, ![t].pc = "lock"]
           /\ objects' = res.objects
    /\ UNCHANGED <<background, scene0>>
    /\ UNCHANGED shadeVars
    /\ UNCHANGED <<dims, mainPc, row, col, wg, imgLock, img, setCalls, encoded>>

\* main.go:314  imgLock.Lock()
TileLock(t) ==
    /\ tiles[t].pc = "lock"
    /\ imgLock = 0
    /\ imgLock' = t
    /\ tiles' = [tiles EXCEPT ![t].pc = "set"]
    /\ UNCHANGED <<dims, mainPc, row, col, wg, img, setCalls, encoded>>
    /\ UNCHANGED sceneVars
    /\ UNCHANGED shadeVars

\* main.go:315  img.Set(c, r, color)
TileSet(t) ==
    /\ tiles[t].pc = "set"
    /\ img' = imgSet(img, tiles[t].c, tiles[t].r, tiles[t].color)
    /\ setCalls' = [setCalls EXCEPT ![<<tiles[t].c, tiles[t].r>>] = Append(@, t)]
    /\ tiles' = [tiles EXCEPT ![t].pc = "unlock"]
    /\ UNCHANGED <<dims, mainPc, row, col, wg, imgLock, encoded>>
    /\ UNCHANGED sceneVars
    /\ UNCHANGED shadeVars

\* main.go:316,308-309  imgLock.Unlock(), then c++ / r++
TileUnlock(t) ==
    /\ tiles[t].pc = "unlock"
    /\ imgLock' = 0
    /\ tiles' = [tiles EXCEPT ![t] = nextPixel(tiles[t])]
    /\ UNCHANGED <<dims, mainPc, row, col, wg, img, setCalls, encoded>>
    /\ UNCHANGED sceneVars
    /\ UNCHANGED shadeVars

\* main.go:319  imgGroup.Done()
TileDone(t) ==
    /\ tiles[t].pc = "done"
    /\ wg' = wg - 1
    /\ tiles' = [tiles EXCEPT ![t].pc = "exit"]
    /\ UNCHANGED <<dims, mainPc, row, col, imgLock, img, setCalls, encoded>>
    /\ UNCHANGED sceneVars
    /\ UNCHANGED shadeVars

\* main.go:323  imgGroup.Wait()
Wait ==
    /\ mainPc = "wait"
    /\ waitReturns(wg)
    /\ mainPc' = "encode"
    /\ UNCHANGED <<dims, row, col, wg, imgLock, tiles, img, setCalls, encoded>>
    /\ UNCHANGED sceneVars
    /\ UNCHANGED shadeVars

\* main.go:324-325  os.Create, png.Encode(f, img)
Encode ==
    /\ mainPc = "encode"
    /\ encoded' = img
    /\ mainPc' = "done"
    /\ UNCHANGED <<dims, row, col, wg, imgLock, tiles, img, setCalls>>
    /\ UNCHANGED sceneVars
    /\ UNCHANGED shadeVars

\* no call of getColor is modelled stepwise
ShadeIdle ==
    /\ pending = NoRay
    /\ stack = <<>>
    /\ retval = NoColor
    /\ last = [kind |-> "none"]
    /\ nCalls = 0
    /\ nReflect = 0

Init == InitRender /\ InitScene(RenderScenes) /\ ShadeIdle

Next ==
    \/ Spawn
    \/ \E t \in 1..Len(tiles) : TileShade(t)
    \/ \E t \in 1..Len(tiles) : TileLock(t)
    \/ \E t \in 1..Len(tiles) : TileSet(t)
    \/ \E t \in 1..Len(tiles) : TileUnlock(t)
    \/ \E t \in 1..Len(tiles) : TileDone(t)
    \/ Wait
    \/ Encode

Spec == Init /\ [][Next]_vars

(***************************************************************************)
(* main.go:242-288  scene.getColor, one call at a time.  The activations   *)
(* that are inside the loop of main.go:267-276 are the frames of stack;   *)
(* the values are those of getColor above.  MaxDepth caps the depth the    *)
(* model follows; the source has no such bound.                            *)
(***************************************************************************)
MaxDepth == 4

\* main.go:258-266  the activation as it enters its loop
newFrame(r, best, refl) ==
    [r |-> r, minI |-> best.minI, ipnt |-> best.ipnt,
     outgoing |-> refl.outgoing, weights |-> refl.weights, cc |-> refl.color,
     i |-> 0, acc |-> ZeroAcc, ncs |-> <<>>]

\* main.go:269-275  the activation after the call for outgoing[i] returned nc
frameAfter(f, nc) ==
    [f EXCEPT !.acc = accumulate(f.acc, f.cc, f.weights[f.i + 1], nc),
              !.i = f.i + 1,
              !.ncs = Append(f.ncs, nc)]

InitShade ==
    /\ dims = [width |-> ShadeDims[1], height |-> ShadeDims[2],
               granularity |-> ShadeDims[3]]
    /\ mainPc = "shading"
    /\ row = 0
    /\ col = 0
    /\ wg = 0
    /\ imgLock = 0
    /\ tiles = <<>>
    /\ img = [p \in Grid |-> NoColor]
    /\ setCalls = [p \in Coords |-> <<>>]
    /\ encoded = NoImage
    /\ InitScene(ShadeScenes)
    /\ \E p \in Grid : pending = pixelRay(p[1], p[2])
    /\ stack = <<>>
    /\ retval = NoColor
    /\ last = [kind |-> "none"]
    /\ nCalls = 0
    /\ nReflect = 0

\* main.go:243-256,287  no object is hit: return s.background
CallMiss ==
    /\ pending # NoRay
    /\ \E best \in {nearestHit(objects, pending)} :
          /\ best.minI = -1
          /\ retval' = background
          /\ last' = [kind |-> "miss", r |-> pending, color |-> background]
    /\ pending' = NoRay
    /\ nCalls' = nCalls + 1
    /\ UNCHANGED <<stack, nReflect>>
    /\ UNCHANGED sceneVars
    /\ UNCHANGED renderVars

\* main.go:256-261  reflect gives no outgoing ray: return cc
CallLuminous ==
    /\ pending # NoRay
    /\ \E best \in {nearestHit(objects, pending)} :
          /\ best.minI # -1
          /\ \E refl \in {reflect(objects[best.minI + 1], pending, best.ipnt)} :
                /\ Len(refl.outgoing) = 0
                /\ objects' = withBall(objects, best.minI, refl.ball)
                /\ retval' = refl.color
                /\ last' = [kind |-> "luminous", r |-> pending,
                            minI |-> best.minI, ipnt |-> best.ipnt,
                            color |-> refl.color]
    /\ pending' = NoRay
    /\ nCalls' = nCalls + 1
    /\ nReflect' = nReflect + 1
    /\ UNCHANGED <<stack, background, scene0>>
    /\ UNCHANGED renderVars

\* main.go:256-271  reflect gives outgoing rays: enter the loop and call
\* getColor on the first
CallScatter ==
    /\ pending # NoRay
    /\ Len(stack) < MaxDepth
    /\ \E best \in {nearestHit(objects, pending)} :
          /\ best.minI # -1
          /\ \E refl \in {reflect(objects[best.minI + 1], pending, best.ipnt)} :
                /\ Len(refl.outgoing) > 0
                /\ objects' = withBall(objects, best.minI, refl.ball)
                /\ stack' = Append(stack, newFrame(pending, best, refl))
                /\ pending' = refl.outgoing[1]
                /\ last' = [kind |-> "scatter", r |-> pending,
                            minI |-> best.minI, ipnt |-> best.ipnt,
                            color |-> refl.color,
                            outgoing |-> refl.outgoing, weights |-> refl.weights]
    /\ retval' = NoColor
    /\ nCalls' = nCalls + 1
    /\ nReflect' = nReflect + 1
    /\ UNCHANGED <<background, scene0>>
    /\ UNCHANGED renderVars

\* main.go:267-276  a call of the loop returned and the loop goes on
ReturnNext ==
    /\ retval # NoColor
    /\ stack # <<>>
    /\ \E f \in {frameAfter(stack[Len(stack)], retval)} :
          /\ f.i < Len(f.outgoing)
          /\ stack' = [stack EXCEPT ![Len(stack)] = f]
          /\ pending' = f.outgoing[f.i + 1]
          /\ last' = [kind |-> "next", r |-> f.r]
    /\ retval' = NoColor
    /\ UNCHANGED <<nCalls, nReflect>>
    /\ UNCHANGED sceneVars
    /\ UNCHANGED renderVars

\* main.go:267-285  the last call of the loop returned: average and return
ReturnLast ==
    /\ retval # NoColor
    /\ stack # <<>>
    /\ \E f \in {frameAfter(stack[Len(stack)], retval)} :
          /\ f.i >= Len(f.outgoing)
          /\ stack' = SubSeq(stack, 1, Len(stack) - 1)
          /\ retval' = finish(f.acc, f.cc)
          /\ last' = [kind |-> "blend", r |-> f.r, cc |-> f.cc, ncs |-> f.ncs,
                      weights |-> f.weights, acc |-> f.acc,
                      color |-> finish(f.acc, f.cc)]
    /\ UNCHANGED <<pending, nCalls, nReflect>>
    /\ UNCHANGED sceneVars
    /\ UNCHANGED renderVars

NextShade == CallMiss \/ CallLuminous \/ CallScatter \/ ReturnNext \/ ReturnLast

SpecShade == InitShade /\ [][NextShade]_vars

(***************************************************************************)
(* Properties of scene.render (specification Spec)                         *)
(***************************************************************************)
\* granularity divides width and height (the comment of main.go:303)
Divides ==
    /\ dims.width % dims.granularity = 0
    /\ dims.height % dims.granularity = 0

\* render is past imgGroup.Wait()
Waited == mainPc \in {"encode", "done"}

\* the number of goroutines the loops of main.go:304-305 start
TileCount ==
    ((dims.width + dims.granularity - 1) \div dims.granularity)
        * ((dims.height + dims.granularity - 1) \div dims.granularity)

\* C1: when granularity divides width and height, img.Set is called on
\* pixels of the grid only, no pixel is passed to img.Set more than once (so
\* not by two tiles), and once Wait has returned every pixel of the grid
\* has been passed exactly once, whatever the interleaving.
C1_TilesCoverGridOnce ==
    Divides =>
        /\ \A p \in Coords : Len(setCalls[p]) <= 1
        /\ \A p \in Coords \ Grid : setCalls[p] = <<>>
        /\ Waited => \A p \in Grid : Len(setCalls[p]) = 1

\* a render of several tiles has finished with every pixel written once
C1_Witness ==
    /\ Divides
    /\ mainPc = "done"
    /\ Len(tiles) >= 2
    /\ \A p \in Grid : Len(setCalls[p]) = 1 /\ img[p] # NoColor

\* tile t has called img.Set for every pixel of its loops
TileWroteAll(t) ==
    \A r \in tileRows(tiles[t].initr), c \in tileCols(tiles[t].initc) :
        \E k \in 1..Len(setCalls[<<c, r>>]) : setCalls[<<c, r>>][k] = t

\* C2: once Wait has returned (so when png.Encode is given the buffer)
\* every tile goroutine of the loops has been started, has made all its
\* calls of img.Set and has called Done; the buffer encoded is complete.
C2_EncodeAfterAllTiles ==
    Waited =>
        /\ Len(tiles) = TileCount
        /\ wg = 0
        /\ imgLock = 0
        /\ \A t \in 1..Len(tiles) : tiles[t].pc = "exit" /\ TileWroteAll(t)
        /\ \A p \in Grid : img[p] # NoColor
        /\ encoded # NoImage => encoded = img

\* Wait has returned on several tiles and the buffer has not been encoded yet
C2_Witness ==
    /\ mainPc = "encode"
    /\ Len(tiles) >= 2
    /\ encoded = NoImage

\* C3 (as stated): rendering leaves the scene, its objects and their
\* materials as main built them.
C3_SceneReadOnly ==
    /\ objects = scene0.objects
    /\ background = scene0.background

\* the colour getColor gives pixel p on the scene as main built it
RenderOf(p) ==
    getColor(scene0.objects, scene0.background, pixelRay(p[1], p[2])).color

\* two results of reflect have the same rays and weights
SameRays(first, second) ==
    /\ first.outgoing = second.outgoing
    /\ first.weights = second.weights

\* a second call of reflect for (r, h.point) gives what the first gave
ReflectRepeats(b, r, h) ==
    h.intersects =>
        \E first \in {reflect(b, r, h.point)} :
            SameRays(first, reflect(first.ball, r, h.point))

C6_RejectsBadGranularity ==
    ~Divides =>
        /\ tiles = <<>>
        /\ \A p \in Coords : setCalls[p] = <<>>

(***************************************************************************)
(* Properties of scene.getColor (specification SpecShade)                  *)
(***************************************************************************)
\* the rays of the activations on the stack, then the ray being called
CallChain ==
    [k \in 1..Len(stack) |-> stack[k].r]
        \o (IF pending = NoRay THEN <<>> ELSE <<pending>>)

\* C5 (as stated): every call of getColor returns, so no call is made,
\* directly or through other calls, from inside a call with the same ray.
C5_NoRayReentered ==
    \A j \in 1..Len(CallChain), k \in 1..Len(CallChain) :
        j < k => CallChain[j] # CallChain[k]

\* no object of objs reports an intersection with r
AllMiss(objs, r) ==
    \A i \in 1..Len(objs) : ~intersect(objs[i], r).intersects

\* C7: a call of getColor with a ray that no object intersects returns the
\* background colour, in one step: reflect is not called and no further
\* call of getColor is made.
C7_MissGivesBackground ==
    [][(pending # NoRay /\ AllMiss(objects, pending)) =>
          /\ retval' = background
          /\ nReflect' = nReflect
          /\ nCalls' = nCalls + 1
          /\ pending' = NoRay
          /\ stack' = stack
          /\ objects' = objects]_vars

\* a camera ray that missed every object
C7_Witness ==
    /\ last.kind = "miss"
    /\ AllMiss(objects, last.r)
    /\ retval = background
    /\ nCalls = 1
    /\ nReflect = 0

\* reflect's answer for a luminous ball: no rays, the material's colour
LuminousAnswer(b, refl) ==
    /\ refl.outgoing = <<>>
    /\ refl.weights = <<>>
    /\ refl.color = b.mat.color

\* reflect's answer for a ball that is not luminous: the first ray is the
\* ideal reflected ray, from the hit point, with weight 1.0
ReflectingAnswer(ipnt, refl) ==
    /\ Len(refl.outgoing) >= 1
    /\ Len(refl.weights) = Len(refl.outgoing)
    /\ refl.outgoing[1].src = ipnt
    /\ refl.weights[1] = WeightDen

\* reflect gives no ray exactly when b is luminous
EmptyIffLuminous(b, ipnt, refl) ==
    /\ (refl.outgoing = <<>>) <=> b.mat.luminous
    /\ IF b.mat.luminous THEN LuminousAnswer(b, refl)
       ELSE ReflectingAnswer(ipnt, refl)

\* the step getColor takes on ray pending, whose nearest hit is best
HitStep(best) ==
    /\ EmptyIffLuminous(objects[best.minI + 1], best.ipnt,
                        reflect(objects[best.minI + 1], pending, best.ipnt))
    /\ nReflect' = nReflect + 1
    /\ IF objects[best.minI + 1].mat.luminous
       THEN /\ retval' = objects[best.minI + 1].mat.color
            /\ pending' = NoRay
            /\ stack' = stack
            /\ nCalls' = nCalls + 1
       ELSE /\ retval' = NoColor
            /\ Len(stack') = Len(stack) + 1
            /\ pending' = stack'[Len(stack')].outgoing[1]
            /\ stack'[Len(stack')].weights[1] = WeightDen

\* C8: when the nearest hit is luminous reflect gives no outgoing ray and
\* getColor returns the material's colour at once, calling getColor for no
\* ray; when it is not luminous the outgoing rays start with the ideal
\* reflected ray of weight 1.0, so they are empty exactly for luminous hits.
C8_LuminousStopsRecursion ==
    [][(pending # NoRay /\ ~AllMiss(objects, pending)) =>
          HitStep(nearestHit(objects, pending))]_vars

\* a reflected ray reached a lamp, and the call returned the lamp's colour
C8_Witness ==
    /\ last.kind = "luminous"
    /\ stack # <<>>
    /\ objects[last.minI + 1].mat.luminous
    /\ retval = objects[last.minI + 1].mat.color

RECURSIVE SumTo(_, _)
\* xs[1] + ... + xs[n]
SumTo(xs, n) == IF n = 0 THEN 0 ELSE SumTo(xs, n - 1) + xs[n]

\* the sum of w_i * channel_i
WeightedSum(ws, channels) ==
    SumTo([i \in 1..Len(ws) |-> ws[i] * channels[i]], Len(ws))

Reds(ncs) == [i \in 1..Len(ncs) |-> ncs[i].R]

Greens(ncs) == [i \in 1..Len(ncs) |-> ncs[i].G]

Blues(ncs) == [i \in 1..Len(ncs) |-> ncs[i].B]

\* the whole part of base/alpha * sum/total
Tinted(base, alpha, sum, total) == (base * sum) \div (alpha * total)

\* the colour of the amended law for base colour cc
TintedAverage(cc, ncs, ws, total) ==
    RGBA(Tinted(cc.R, cc.A, WeightedSum(ws, Reds(ncs)), total),
         Tinted(cc.G, cc.A, WeightedSum(ws, Greens(ncs)), total),
         Tinted(cc.B, cc.A, WeightedSum(ws, Blues(ncs)), total),
         255)

\* channel is sum/total to within one unit of the channel
NearAverage(channel, sum, total) ==
    /\ channel * total <= sum + total
    /\ sum <= channel * total + total

\* the orders of 1..n: the order of the code, the reverse order and every
\* order that exchanges two positions
Orders(n) ==
    {[i \in 1..n |-> n + 1 - i]}
        \cup {[i \in 1..n |-> IF i = j THEN k ELSE IF i = k THEN j ELSE i] :
                 j \in 1..n, k \in 1..n}

RECURSIVE AccumulateIn(_, _, _, _, _)
\* the accumulator after the first n rays of order have been evaluated
AccumulateIn(cc, ncs, ws, order, n) ==
    IF n = 0 THEN ZeroAcc
    ELSE accumulate(AccumulateIn(cc, ncs, ws, order, n - 1), cc,
                    ws[order[n]], ncs[order[n]])

HitDist(objs, r, i) == norm(to(r.src, intersect(objs[i], r).point))

\* object m (from 1) is hit by r at ipnt, no object is hit nearer, and no
\* object before m is hit as near
NearestFirst(objs, r, m, ipnt) ==
    /\ m \in 1..Len(objs)
    /\ intersect(objs[m], r).intersects
    /\ intersect(objs[m], r).point = ipnt
    /\ \A i \in 1..Len(objs) :
          intersect(objs[i], r).intersects =>
              /\ HitDist(objs, r, m) <= HitDist(objs, r, i)
              /\ HitDist(objs, r, i) = HitDist(objs, r, m) => m <= i

\* C10: the object getColor calls reflect on is hit by the ray, is hit no
\* farther from the ray's origin than any other object that is hit, and is
\* the first of s.objects among those hit equally near; reflect is called
\* on it with its own hit point (the colour is its material's, and the
\* reflected ray starts at that point).
C10_NearestHitFirstOnTies ==
    last.kind \in {"luminous", "scatter"} =>
        /\ NearestFirst(objects, last.r, last.minI + 1, last.ipnt)
        /\ last.color = objects[last.minI + 1].mat.color
        /\ last.kind = "scatter" => last.outgoing[1].src = last.ipnt

\* the object chosen is not the first hit in s.objects, and a later object
\* is hit exactly as near
C10_Witness ==
    /\ last.kind \in {"luminous", "scatter"}
    /\ last.minI > 0
    /\ \E i \in 1..last.minI :
          /\ intersect(objects[i], last.r).intersects
          /\ HitDist(objects, last.r, i) > HitDist(objects, last.r, last.minI + 1)
    /\ \E i \in (last.minI + 2)..Len(objects) :
          /\ intersect(objects[i], last.r).intersects
          /\ HitDist(objects, last.r, i) = HitDist(objects, last.r, last.minI + 1)
====
